---- MODULE Spec2Model ----
(***************************************************************************)
(* Session coordination core of the PDF co-viewing server (src/index.js):  *)
(* the in-memory `sessions` table, the socket.io rooms, the uploads        *)
(* directory, the four socket handlers and the hourly expiry sweep.        *)
(* Every handler runs to completion on the single event-loop thread, so    *)
(* each handler is one action.                                             *)
(***************************************************************************)
EXTENDS Integers, Sequences, FiniteSets, TLC

\* ---------------------------------------------------------------- bounds
MaxConns == 2
MaxSessions == 2
MaxPage == 1
MaxFiles == 1
MaxSkew == 1
MaxChanges == 2

\* ------------------------------------------------------ program constants
\* 24 * 60 * 60 * 1000
ExpiryMs == 86400000
\* 60 * 60 * 1000
SweepIntervalMs == 3600000
\* a key such as "constructor" that `sessions = {}` inherits from
\* Object.prototype: sessions[ProtoKey] is truthy but is no session record
ProtoKey == 0

\* ------------------------------------------------------------ input sets
\* socket ids
Conns == 1..MaxConns
\* ids uuidv4() hands out, in the order it hands them out
SessionIds == 1..MaxSessions
\* what a client may send as sessionId: any id, issued or not, or ProtoKey
SessionKeys == SessionIds \cup {ProtoKey}
\* what a client may send as pageNumber (0: a non-positive page)
PagePayloads == 0..MaxPage
\* names multer gives to stored files
FileNames == 1..MaxFiles

StrUrl(b) == [isString |-> TRUE, base |-> b]
NonStringUrl == [isString |-> FALSE, base |-> 0]
\* what a client may send as pdfUrl: "/uploads/<file>", or no string at all
\* (create-session emitted without an argument: pdfUrl is undefined)
UrlPayloads == {StrUrl(b) : b \in FileNames} \cup {NonStringUrl}

VARIABLES
    conn,       \* socket id -> "idle" | "open" | "closed"
    sessions,   \* the sessions object: issued id -> session record
    nextId,     \* the next id uuidv4() returns
    rooms,      \* socket.io rooms: room name -> set of joined sockets
    files,      \* names of the files in uploadsDir
    now,        \* Date.now(), ms since process start
    crashed,    \* an exception escaped a handler: the process is gone
    emitted,    \* the messages the last step emitted
    issued,     \* per session id, the pages of the authorized page-changes
    recv        \* per socket, the page-updates delivered to it, in order

vars == <<conn, sessions, nextId, rooms, files, now, crashed, emitted,
          issued, recv>>

NoUrl == [isString |-> FALSE, base |-> -1]

Msg(to, ev, num, url, text) ==
    [to |-> to, ev |-> ev, num |-> num, url |-> url, text |-> text]

ErrorMsg(c, text) == Msg(c, "error", 0, NoUrl, text)

\* io.to(sessionId).emit('error', ...) in the place of socket.emit
ErrorReplyToRoom(c, key, text) == {ErrorMsg(d, text) : d \in rooms[key] \cup {c}}

\* socket.emit('error', { message: text }) in the handler of a request of c
\* about key: the requesting socket alone
ErrorReply(c, key, text) == {ErrorMsg(c, text)}

\* delete sessions[k]
Remove(ss, k) == [i \in DOMAIN ss \ {k} |-> ss[i]]

\* sessions[key] is truthy
Truthy(ss, key) == key = ProtoKey \/ key \in DOMAIN ss

Init ==
    /\ conn = [c \in Conns |-> "idle"]
    /\ sessions = <<>>
    /\ nextId = 1
    /\ rooms = [k \in SessionKeys |-> {}]
    /\ files = {}
    /\ now = 0
    /\ crashed = FALSE
    /\ emitted = {}
    /\ issued = [s \in SessionIds |-> <<>>]
    /\ recv = [c \in Conns |-> <<>>]

\* io.on('connection'): sockets are named in the order they connect
Connect(c) ==
    /\ ~crashed
    /\ conn[c] = "idle"
    /\ \A d \in Conns : d < c => conn[d] # "idle"
    /\ conn' = [conn EXCEPT ![c] = "open"]
    /\ emitted' = {}
    /\ UNCHANGED <<sessions, nextId, rooms, files, now, crashed, issued, recv>>

\* Date.now() moves on, by a millisecond or by a day
Tick(d) ==
    /\ ~crashed
    /\ \/ d = 1 /\ now % ExpiryMs < MaxSkew
       \/ d = ExpiryMs /\ now < ExpiryMs
    /\ now' = now + d
    /\ emitted' = {}
    /\ UNCHANGED <<conn, sessions, nextId, rooms, files, crashed, issued, recv>>

\* POST /upload: multer stores the file under a fresh name in uploadsDir
Upload(f) ==
    /\ ~crashed
    /\ f \notin files
    /\ files' = files \cup {f}
    /\ emitted' = {}
    /\ UNCHANGED <<conn, sessions, nextId, rooms, now, crashed, issued, recv>>

\* an id handed out again once its session is gone
ReusedSessionId == CHOOSE i \in SessionIds :
    i \notin DOMAIN sessions /\ \A j \in SessionIds : j < i => j \in DOMAIN sessions

\* uuidv4(): an id never handed out before
NewSessionId == nextId

\* socket.on('create-session')
CreateSession(c, pdfUrl) ==
    /\ ~crashed
    /\ conn[c] = "open"
    /\ nextId <= MaxSessions
    /\ LET sessionId == NewSessionId IN
        /\ sessions' = [i \in DOMAIN sessions \cup {sessionId} |->
                          IF i = sessionId
                          THEN [admin |-> c, viewers |-> {}, currentPage |-> 1,
                                pdfUrl |-> pdfUrl, createdAt |-> now]
                          ELSE sessions[i]]
        /\ nextId' = nextId + 1
        /\ rooms' = [rooms EXCEPT ![sessionId] = @ \cup {c}]
        /\ emitted' = {Msg(c, "session-created", sessionId, NoUrl, "")}
    /\ UNCHANGED <<conn, files, now, crashed, issued, recv>>

\* a snapshot that carries the page a session starts with
JoinedMsgFirstPage(c, s) == Msg(c, "session-joined", 1, s.pdfUrl, "")

\* the reply of a successful join: the snapshot of the session
JoinedMsg(c, s) == Msg(c, "session-joined", s.currentPage, s.pdfUrl, "")

\* a join that takes out a socket that is already in the set
AddViewerToggle(vs, c) == IF c \in vs THEN vs \ {c} ELSE vs \cup {c}

\* viewers.add(socket.id) on a Set
AddViewer(vs, c) == vs \cup {c}

\* socket.on('join-session')
JoinSession(c, key) ==
    /\ ~crashed
    /\ conn[c] = "open"
    /\ IF ~Truthy(sessions, key)
       THEN /\ emitted' = ErrorReply(c, key, "Session not found")
            /\ UNCHANGED <<sessions, rooms>>
       ELSE IF key \notin DOMAIN sessions
       THEN \* socket.join(key) succeeds, then `.viewers.add` throws on the
            \* inherited value and the catch reports it
            /\ rooms' = [rooms EXCEPT ![key] = @ \cup {c}]
            /\ emitted' = ErrorReply(c, key, "Failed to join session")
            /\ UNCHANGED sessions
       ELSE /\ rooms' = [rooms EXCEPT ![key] = @ \cup {c}]
            /\ sessions' = [sessions EXCEPT ![key].viewers = AddViewer(@, c)]
            /\ emitted' = {JoinedMsg(c, sessions'[key])}
    /\ UNCHANGED <<conn, nextId, files, now, crashed, issued, recv>>

\* the check of line 124 left out
IsAdminMissing(ss, key, c) == key \in DOMAIN ss

\* sessions[sessionId].admin !== socket.id is false
IsAdmin(ss, key, c) == key \in DOMAIN ss /\ ss[key].admin = c

\* socket.to(sessionId): the room without the sender
RoomTargetsExceptSender(c, key) == rooms[key] \ {c}

\* io.to(sessionId): the sockets a broadcast to the room reaches
RoomTargets(c, key) == rooms[key]

\* the number of authorized page-changes so far
Changes == LET RECURSIVE Sum(_)
               Sum(k) == IF k = 0 THEN 0 ELSE Len(issued[k]) + Sum(k - 1)
           IN Sum(MaxSessions)

\* socket.on('page-change') with an object payload
PageChange(c, key, pageNumber) ==
    /\ ~crashed
    /\ conn[c] = "open"
    /\ IF ~Truthy(sessions, key)
       THEN /\ emitted' = ErrorReply(c, key, "Session not found")
            /\ UNCHANGED <<sessions, issued, recv>>
       ELSE IF ~IsAdmin(sessions, key, c)
       THEN /\ emitted' = ErrorReply(c, key, "Unauthorized to change page")
            /\ UNCHANGED <<sessions, issued, recv>>
       ELSE /\ Changes < MaxChanges
            /\ sessions' = [sessions EXCEPT ![key].currentPage = pageNumber]
            /\ emitted' = {Msg(d, "page-update", pageNumber, NoUrl, "") :
                              d \in RoomTargets(c, key)}
            /\ recv' = [d \in Conns |->
                          IF d \in RoomTargets(c, key)
                          THEN Append(recv[d], <<key, pageNumber>>)
                          ELSE recv[d]]
            /\ issued' = [issued EXCEPT ![key] = Append(@, pageNumber)]
    /\ UNCHANGED <<conn, nextId, rooms, files, now, crashed>>

\* socket.on('page-change') with no payload (undefined or null): destructuring
\* the parameter throws before the try block is entered, nothing catches it
\* and the process exits: its memory and its sockets are gone, the files stay
PageChangeNoPayload(c) ==
    /\ ~crashed
    /\ conn[c] = "open"
    /\ crashed' = TRUE
    /\ conn' = [d \in Conns |-> IF conn[d] = "open" THEN "closed" ELSE conn[d]]
    /\ sessions' = <<>>
    /\ rooms' = [k \in SessionKeys |-> {}]
    /\ emitted' = {}
    /\ UNCHANGED <<nextId, files, now, issued, recv>>

\* path.basename(pdfUrl): throws on a non-string, else the last path segment
BasenameThrows(url) == ~url.isString
Basename(url) == url.base

\* fs.existsSync(path.join(uploadsDir, base))
ExistsSync(fs, base) == base \in fs

\* lines 143-147 throw for this pdfUrl
CleanupThrows(fs, url) == BasenameThrows(url)

\* the files left by lines 143-147 when they do not throw
CleanupFiles(fs, url) ==
    IF ExistsSync(fs, Basename(url)) THEN fs \ {Basename(url)} ELSE fs

\* the for-in loop of the disconnect handler from key k on, in insertion
\* order; an exception leaves the loop
RECURSIVE Reconcile(_, _, _, _)
Reconcile(c, k, ss, fs) ==
    IF k > MaxSessions THEN [sessions |-> ss, files |-> fs, threw |-> FALSE]
    ELSE IF k \notin DOMAIN ss THEN Reconcile(c, k + 1, ss, fs)
    ELSE IF ss[k].admin = c
    THEN IF CleanupThrows(fs, ss[k].pdfUrl)
         THEN [sessions |-> ss, files |-> fs, threw |-> TRUE]
         ELSE Reconcile(c, k + 1, Remove(ss, k), CleanupFiles(fs, ss[k].pdfUrl))
    ELSE Reconcile(c, k + 1, [ss EXCEPT ![k].viewers = @ \ {c}], fs)

\* socket.on('disconnect'); socket.io has taken the socket out of its rooms
Disconnect(c) ==
    /\ ~crashed
    /\ conn[c] = "open"
    /\ conn' = [conn EXCEPT ![c] = "closed"]
    /\ rooms' = [k \in SessionKeys |-> rooms[k] \ {c}]
    /\ LET r == Reconcile(c, 1, sessions, files) IN
        /\ sessions' = r.sessions
        /\ files' = r.files
    /\ emitted' = {}
    /\ UNCHANGED <<nextId, now, crashed, issued, recv>>

\* the comparison of line 163 with >= for >
ExpiredAtThreshold(s, t) == t - s.createdAt >= ExpiryMs

\* now - sessions[sessionId].createdAt > 24 * 60 * 60 * 1000
Expired(s, t) == t - s.createdAt > ExpiryMs

\* the setInterval callback
Sweep ==
    /\ ~crashed
    /\ now >= SweepIntervalMs
    /\ sessions' = [i \in {j \in DOMAIN sessions : ~Expired(sessions[j], now)} |->
                      sessions[i]]
    /\ emitted' = {}
    /\ UNCHANGED <<conn, nextId, rooms, files, now, crashed, issued, recv>>

Next ==
    \/ \E c \in Conns : Connect(c)
    \/ \E d \in {1, ExpiryMs} : Tick(d)
    \/ \E f \in FileNames : Upload(f)
    \/ \E c \in Conns, u \in UrlPayloads : CreateSession(c, u)
    \/ \E c \in Conns, k \in SessionKeys : JoinSession(c, k)
    \/ \E c \in Conns, k \in SessionKeys, n \in PagePayloads : PageChange(c, k, n)
    \/ \E c \in Conns : PageChangeNoPayload(c)
    \/ \E c \in Conns : Disconnect(c)
    \/ Sweep

Spec == Init /\ [][Next]_vars

\* the socket handlers alone: no upload, no clock, no sweep
NextSession ==
    \/ \E c \in Conns : Connect(c)
    \/ \E c \in Conns, u \in UrlPayloads : CreateSession(c, u)
    \/ \E c \in Conns, k \in SessionKeys : JoinSession(c, k)
    \/ \E c \in Conns, k \in SessionKeys, n \in PagePayloads : PageChange(c, k, n)
    \/ \E c \in Conns : PageChangeNoPayload(c)
    \/ \E c \in Conns : Disconnect(c)

SpecSession == Init /\ [][NextSession]_vars

\* the life of a session: the handlers, the clock and the sweep, for clients
\* that send the URL of an upload and ids that uuidv4() can return
NextExpiry ==
    \/ \E c \in Conns : Connect(c)
    \/ \E d \in {1, ExpiryMs} : Tick(d)
    \/ \E c \in Conns, f \in FileNames : CreateSession(c, StrUrl(f))
    \/ \E c \in Conns, k \in SessionIds : JoinSession(c, k)
    \/ \E c \in Conns, k \in SessionIds, n \in PagePayloads : PageChange(c, k, n)
    \/ \E c \in Conns : Disconnect(c)
    \/ Sweep

SpecExpiry == Init /\ [][NextExpiry]_vars

\* uploads, sessions and disconnects: what becomes of the stored files
NextCleanup ==
    \/ \E c \in Conns : Connect(c)
    \/ \E f \in FileNames : Upload(f)
    \/ \E c \in Conns, u \in UrlPayloads : CreateSession(c, u)
    \/ \E c \in Conns, k \in SessionIds : JoinSession(c, k)
    \/ \E c \in Conns : Disconnect(c)

SpecCleanup == Init /\ [][NextCleanup]_vars

\* both ways a session ends, with the files: uploads, sessions, disconnects,
\* the clock and the sweep
NextReclaim ==
    \/ \E c \in Conns : Connect(c)
    \/ \E f \in FileNames : Upload(f)
    \/ \E d \in {1, ExpiryMs} : Tick(d)
    \/ \E c \in Conns, u \in UrlPayloads : CreateSession(c, u)
    \/ \E c \in Conns, k \in SessionIds : JoinSession(c, k)
    \/ \E c \in Conns : Disconnect(c)
    \/ Sweep

SpecReclaim == Init /\ [][NextReclaim]_vars

\* the clock of the model stops at ExpiryMs + MaxSkew: a session created at
\* this time can still be seen to outlive 24 hours
CanOutlive == now < MaxSkew

\* the life of a session under a clock that advances and a timer that keeps
\* firing
NextLive ==
    \/ \E c \in Conns : Connect(c)
    \/ \E d \in {1, ExpiryMs} : Tick(d)
    \/ \E c \in Conns, u \in UrlPayloads : CanOutlive /\ CreateSession(c, u)
    \/ \E c \in Conns, k \in SessionIds : JoinSession(c, k)
    \/ \E c \in Conns : Disconnect(c)
    \/ Sweep

\* Date.now() advances; setInterval fires its callback again and again
SpecLive ==
    /\ Init
    /\ [][NextLive]_vars
    /\ WF_vars(\E d \in {1, ExpiryMs} : Tick(d))
    /\ WF_vars(Sweep)

\* ------------------------------------------------------------------ C1
\* C1: no session's viewer set contains the session's own controller.
C1_ViewersExcludeController ==
    \A s \in DOMAIN sessions : sessions[s].admin \notin sessions[s].viewers

\* ------------------------------------------------------------------ C2
\* what C2 says of one step
C2_Step ==
    /\ \A c \in Conns, k \in SessionIds, n \in PagePayloads :
        (k \in DOMAIN sessions /\ sessions[k].admin # c /\ PageChange(c, k, n))
        => /\ sessions' = sessions
           /\ emitted' = {ErrorMsg(c, "Unauthorized to change page")}
           /\ recv' = recv
    /\ \A s \in DOMAIN sessions \cap DOMAIN sessions' :
        sessions'[s].currentPage # sessions[s].currentPage
        => \E m \in PagePayloads : PageChange(sessions[s].admin, s, m)

\* C2: a page-change for an existing session sent by a connection that is not
\* its controller leaves every session as it was, sends that connection the
\* 'Unauthorized to change page' error and nothing else, and delivers no
\* page-update; and any step that changes a session's currentPage is a
\* page-change sent by that session's controller.
C2_OnlyControllerChangesPage == [][C2_Step]_vars

\* a viewer of a session whose page the controller has changed was just
\* refused, and the page is still the controller's
C2_Witness ==
    \E c \in Conns, s \in DOMAIN sessions :
        /\ c \in sessions[s].viewers
        /\ sessions[s].admin # c
        /\ \A t \in DOMAIN sessions : t = s
        /\ rooms[ProtoKey] = {}
        /\ issued[s] # <<>>
        /\ sessions[s].currentPage # 1
        /\ emitted = {ErrorMsg(c, "Unauthorized to change page")}

\* ------------------------------------------------------------------ C3
\* what C3 says of one step
C3_Step ==
    \A c \in Conns : Disconnect(c) =>
        \A s \in DOMAIN sessions : sessions[s].admin = c =>
            /\ s \notin DOMAIN sessions'
            /\ sessions[s].pdfUrl.isString => sessions[s].pdfUrl.base \notin files'

\* C3: when the disconnect of a connection c has been handled, every session
\* whose controller was c is gone from the store, joined viewers or not, and
\* the file its document URL names is gone from the uploads directory, for
\* any number of sessions of c and any document URL they were created with.
C3_ControllerDisconnectCleansUp == [][C3_Step]_vars

\* ------------------------------------------------------------------ C4
\* what C4 says of one step
C4_Step ==
    \A c \in Conns, k \in SessionKeys :
        (k \notin DOMAIN sessions /\ JoinSession(c, k)) =>
            /\ emitted' = {ErrorMsg(c, "Session not found")}
            /\ sessions' = sessions
            /\ rooms' = rooms

\* C4: a join-session for an id that is not in the store replies 'Session not
\* found' to the requester and nothing else, leaves the store as it was and
\* subscribes the requester to no room.
C4_JoinUnknownIsNotFound == [][C4_Step]_vars

\* ------------------------------------------------------------------ C5
\* what C5 says of one step
C5_Step ==
    Sweep =>
        /\ DOMAIN sessions' \subseteq DOMAIN sessions
        /\ \A s \in DOMAIN sessions :
            IF now - sessions[s].createdAt > ExpiryMs
            THEN s \notin DOMAIN sessions'
            ELSE s \in DOMAIN sessions' /\ sessions'[s] = sessions[s]

\* C5: one run of the sweep at time now removes exactly the sessions whose
\* age now - createdAt is more than 24 hours; every other session, one of age
\* exactly 24 hours included, stays with all its fields as they were.
C5_SweepRemovesExactlyExpired == [][C5_Step]_vars

\* no socket has closed, so only the sweep can have removed a session: the
\* first session is gone and one of age exactly 24 hours, with a viewer, is
\* still there
C5_Witness ==
    /\ \A c \in Conns : conn[c] = "open"
    /\ nextId = 3
    /\ DOMAIN sessions = {2}
    /\ now - sessions[2].createdAt = ExpiryMs
    /\ sessions[2].viewers # {}

\* ------------------------------------------------------------------ C6
\* what C6 says of one step
C6_Step ==
    \A c \in Conns, k \in SessionIds, n \in PagePayloads :
        (k \in DOMAIN sessions /\ sessions[k].admin = c /\ PageChange(c, k, n)) =>
            /\ sessions'[k] = [sessions[k] EXCEPT !.currentPage = n]
            /\ emitted' = {Msg(d, "page-update", n, NoUrl, "") :
                  d \in {e \in {c} \cup sessions[k].viewers : conn[e] = "open"}}
            /\ {m.to : m \in emitted'} = rooms[k]
            /\ \A d \in Conns :
                recv'[d] = IF d \in rooms[k] THEN Append(recv[d], <<k, n>>) ELSE recv[d]
            /\ \A s \in DOMAIN sessions \ {k} :
                s \in DOMAIN sessions' /\ sessions'[s] = sessions[s]

\* C6: a page-change(S, n) sent by the controller of an existing session S
\* sets S.currentPage to n and delivers page-update(n) to the controller and
\* to every joined viewer whose socket is open, which are the sockets of S's
\* room, and to nobody else; every other session stays as it was.
C6_ControllerPageChangeFansOut == [][C6_Step]_vars

\* the controller and its viewer have both just been sent page-update(0),
\* and a second session still shows its first page
C6_Witness ==
    \E k \in DOMAIN sessions :
        /\ sessions[k].viewers \ {sessions[k].admin} # {}
        /\ sessions[k].currentPage = 0
        /\ emitted = {Msg(d, "page-update", 0, NoUrl, "") :
              d \in {sessions[k].admin} \cup sessions[k].viewers}
        /\ \E s \in DOMAIN sessions : s # k /\ sessions[s].currentPage = 1

\* ------------------------------------------------------------------ C7
\* the pages of the page-updates of session s in a received sequence
RECURSIVE PagesOf(_, _)
PagesOf(q, s) ==
    IF q = <<>> THEN <<>>
    ELSE IF Head(q)[1] = s THEN <<Head(q)[2]>> \o PagesOf(Tail(q), s)
    ELSE PagesOf(Tail(q), s)

\* p is a run of consecutive elements of q
IsContiguousIn(p, q) ==
    \E i \in 0..Len(q) : i + Len(p) <= Len(q) /\ SubSeq(q, i + 1, i + Len(p)) = p

\* every socket's updates of a session are a run of the issued changes
C7_Order ==
    \A c \in Conns, s \in SessionIds : IsContiguousIn(PagesOf(recv[c], s), issued[s])

\* what C7 says of one step
C7_Step ==
    /\ (recv' # recv \/ issued' # issued) => C7_Order'
    /\ \A c \in Conns, k \in SessionIds, n \in PagePayloads :
        (k \in DOMAIN sessions /\ sessions[k].admin = c /\ PageChange(c, k, n)) =>
            \A d \in rooms[k] :
                /\ PagesOf(recv'[d], k) # <<>>
                /\ PagesOf(recv'[d], k)[Len(PagesOf(recv'[d], k))]
                       = sessions'[k].currentPage

\* C7: for every session and every socket, the page-updates of that session
\* the socket has received are, in order, a run of consecutive elements of
\* the authorized page-changes the controller issued; and right after an
\* authorized page-change the last page-update every socket of the room has
\* received for the session is the session's currentPage.
C7_UpdatesInIssueOrder == [][C7_Step]_vars

\* a viewer that joined after the first page-change has received the second
\* one only, the controller both, in the order 1 then 0
C7_Witness ==
    \E k \in DOMAIN sessions, v \in Conns :
        /\ issued[k] = <<1, 0>>
        /\ PagesOf(recv[sessions[k].admin], k) = <<1, 0>>
        /\ v \in sessions[k].viewers
        /\ v # sessions[k].admin
        /\ PagesOf(recv[v], k) = <<0>>

\* ------------------------------------------------------------------ C8
\* the page of the controller's latest authorized page-change, 1 if none
LatestPage(k) == IF issued[k] = <<>> THEN 1 ELSE issued[k][Len(issued[k])]

\* what C8 says of one step
C8_Step ==
    /\ \A c \in Conns, k \in SessionIds :
        (k \in DOMAIN sessions /\ JoinSession(c, k)) =>
            /\ sessions'[k].viewers = sessions[k].viewers \cup {c}
            /\ rooms'[k] = rooms[k] \cup {c}
            /\ emitted' = {Msg(c, "session-joined", LatestPage(k),
                               sessions[k].pdfUrl, "")}
            /\ sessions'[k].currentPage = LatestPage(k)
    /\ \A s \in DOMAIN sessions \cap DOMAIN sessions' :
        sessions'[s].pdfUrl = sessions[s].pdfUrl

\* C8: a join-session(S) by a socket c for a session S in the store adds c to
\* S's viewers and to S's room and replies to c, and to c alone, with
\* session-joined carrying S's document URL and the page of the controller's
\* latest authorized page-change (1 if there was none); no step changes the
\* document URL a session was created with.
C8_JoinReturnsSnapshot == [][C8_Step]_vars

\* a socket that is not the controller has just joined a session whose page
\* the controller had moved to 0, and was told so
C8_Witness ==
    \E k \in DOMAIN sessions, c \in Conns :
        /\ c # sessions[k].admin
        /\ c \in sessions[k].viewers
        /\ c \in rooms[k]
        /\ issued[k] # <<>>
        /\ recv[c] = <<>>
        /\ emitted = {Msg(c, "session-joined", 0, sessions[k].pdfUrl, "")}

\* ------------------------------------------------------------------ C9
\* what C9 says of one step
C9_Step ==
    \A m \in emitted' : m.ev = "error" =>
        /\ emitted' = {m}
        /\ m.text \in {"Session not found", "Unauthorized to change page",
                       "Failed to join session"}
        /\ \/ \E k \in SessionKeys : JoinSession(m.to, k)
           \/ \E k \in SessionKeys, n \in PagePayloads : PageChange(m.to, k, n)
        /\ sessions' = sessions
        /\ recv' = recv
        /\ issued' = issued

\* C9: when a step emits an error, that error is the only message of the
\* step, it goes to the socket whose join-session or page-change the step
\* handles, the store is as it was before and no page-update is delivered.
C9_ErrorsGoToRequesterOnly == [][C9_Step]_vars

\* a socket was just told its join failed while the other socket is the
\* controller of a session with a moved page and sits in the same room
C9_Witness ==
    \E c \in Conns, d \in Conns, k \in DOMAIN sessions :
        /\ c # d
        /\ emitted = {ErrorMsg(c, "Failed to join session")}
        /\ sessions[k].admin = d
        /\ sessions[k].currentPage = 0
        /\ {c, d} \subseteq rooms[ProtoKey]

\* ------------------------------------------------------------------ C10
\* the ids handed out whose session is gone
Terminated == (1..(nextId - 1)) \ DOMAIN sessions

\* what C10 says of one step
C10_Step ==
    \A s \in Terminated :
        /\ s \notin DOMAIN sessions'
        /\ \A c \in Conns : JoinSession(c, s) =>
            /\ emitted' = {ErrorMsg(c, "Session not found")}
            /\ rooms' = rooms
        /\ \A c \in Conns, n \in PagePayloads : PageChange(c, s, n) =>
            /\ emitted' = {ErrorMsg(c, "Session not found")}
            /\ recv' = recv

\* C10: a session id that has been handed out and is gone from the store is
\* never in the store again; a join-session on it replies 'Session not
\* found' and joins no room, and a page-change on it, from any socket,
\* replies 'Session not found' and delivers no page-update.
C10_TerminatedStaysGone == [][C10_Step]_vars

\* both routes: the first session went with its controller's socket, the
\* second was swept while its controller is still connected and has just
\* been told 'Session not found'
C10_Witness ==
    /\ nextId = 3
    /\ sessions = <<>>
    /\ conn = <<"closed", "open">>
    /\ rooms[2] = {2}
    /\ rooms[1] = {2}
    /\ now > ExpiryMs
    /\ emitted = {ErrorMsg(2, "Session not found")}

\* ------------------------------------------------------------------ C11
\* what C11 says of one step
C11_Step ==
    \A s \in DOMAIN sessions \ DOMAIN sessions' :
        sessions[s].pdfUrl.isString => Basename(sessions[s].pdfUrl) \notin files'

\* C11: whenever a session leaves the store, by its controller's disconnect
\* or by the expiry sweep, the file its document URL names is deleted: no
\* terminated session leaves its uploaded file behind.
C11_TerminationDeletesBlob == [][C11_Step]_vars

\* ------------------------------------------------------------------ C12
\* what C12 says of one step
C12_Step ==
    \A c \in Conns : Disconnect(c) =>
        \A s \in DOMAIN sessions :
            (sessions[s].admin = c /\ CleanupThrows(files, sessions[s].pdfUrl))
            => s \notin DOMAIN sessions'

\* C12: when the file step of the disconnect handler fails for a session of
\* the disconnected controller, that session's record is removed from the
\* store all the same.
C12_BlobFailureStillRemovesRecord == [][C12_Step]_vars

\* ------------------------------------------------------------------ C13
\* what C13 says of one step
C13_Step ==
    \A c \in Conns : Disconnect(c) =>
        \A s \in DOMAIN sessions :
            /\ (sessions[s].admin = c /\ ~CleanupThrows(files, sessions[s].pdfUrl))
                => s \notin DOMAIN sessions'
            /\ sessions[s].admin # c
                => s \in DOMAIN sessions' /\ c \notin sessions'[s].viewers

\* C13: a failure while cleaning up one session does not stop the traversal
\* of the disconnect handler: every session of the disconnected socket c
\* whose own clean-up does not fail is deleted, and c is taken out of the
\* viewers of every session it does not control.
C13_FailureDoesNotStopTraversal == [][C13_Step]_vars

\* ------------------------------------------------------------------ C14
\* C14: no inbound event, whatever its payload, takes the server down.
C14_NoEventCrashesServer == ~crashed

\* ------------------------------------------------------------------ C15
\* what C15 says of one step
C15_Step ==
    /\ \A c \in Conns, k \in SessionIds :
        (k \in DOMAIN sessions /\ c \in sessions[k].viewers /\ JoinSession(c, k)) =>
            /\ sessions' = sessions
            /\ rooms' = rooms
            /\ emitted' = {Msg(c, "session-joined", sessions[k].currentPage,
                               sessions[k].pdfUrl, "")}
    /\ \A c \in Conns, k \in SessionIds, n \in PagePayloads :
        (k \in DOMAIN sessions /\ sessions[k].admin = c /\ PageChange(c, k, n)) =>
            \A d \in sessions[k].viewers :
                conn[d] = "open" => recv'[d] = Append(recv[d], <<k, n>>)

\* C15: a join-session(S) by a socket that is already a viewer of S leaves
\* the store and the rooms as they were and replies again with S's document
\* URL and current page; a viewer, however often it joined, receives each
\* later page-update once.
C15_JoinIsIdempotent == [][C15_Step]_vars

\* a viewer that has already received a page-update of the session as a
\* member of its room has just been sent the snapshot again
C15_Witness ==
    \E k \in DOMAIN sessions, c \in Conns :
        /\ c # sessions[k].admin
        /\ sessions[k].viewers = {c}
        /\ rooms[k] = {c, sessions[k].admin}
        /\ PagesOf(recv[c], k) = <<0>>
        /\ emitted = {Msg(c, "session-joined", 0, sessions[k].pdfUrl, "")}

\* ------------------------------------------------------------------ C16
\* what C16 says of one step
C16_Step ==
    \A c \in Conns : Disconnect(c) =>
        /\ emitted' = {}
        /\ \A s \in DOMAIN sessions : sessions[s].admin # c =>
            /\ s \in DOMAIN sessions'
            /\ sessions'[s] = [sessions[s] EXCEPT !.viewers = @ \ {c}]

\* C16: when a socket c disconnects, every session that c does not control
\* stays in the store with its controller, page, document URL, createdAt and
\* other viewers as they were, c is no longer among its viewers, and nothing
\* is emitted to anyone.
C16_DisconnectLeavesOthersIntact == [][C16_Step]_vars

\* ------------------------------------------------------------------ C17
\* C17: every session's currentPage is an integer of at least 1.
C17_CurrentPagePositive ==
    \A s \in DOMAIN sessions : sessions[s].currentPage >= 1

\* ------------------------------------------------------------------ C18
\* what C18 says of one step
C18_Step ==
    /\ \A s \in DOMAIN sessions \ DOMAIN sessions' :
        \/ Disconnect(sessions[s].admin)
        \/ Sweep /\ now - sessions[s].createdAt > ExpiryMs
    /\ Sweep => \A s \in DOMAIN sessions :
        now - sessions[s].createdAt > ExpiryMs => s \notin DOMAIN sessions'

\* C18: while the clock advances and the sweep timer keeps firing, every
\* session in the store is eventually out of it; a sweep removes every
\* session whose age is above 24 hours, and a session leaves the store only
\* in the disconnect of its controller or in a sweep that finds its age
\* above 24 hours.
C18_EverySessionEnds ==
    /\ \A s \in SessionIds : (s \in DOMAIN sessions) ~> (s \notin DOMAIN sessions)
    /\ [][C18_Step]_vars

\* a session whose controller never disconnected has been swept after 24
\* hours
C18_Witness ==
    /\ nextId > 1
    /\ sessions = <<>>
    /\ \A c \in Conns : conn[c] # "closed"
    /\ now > ExpiryMs

\* ------------------------------------------------------------------ C19
\* what C19 says of one step
C19_Step ==
    \A f \in files \ files' : \A s \in DOMAIN sessions' :
        ~(sessions'[s].pdfUrl.isString /\ Basename(sessions'[s].pdfUrl) = f)

\* C19: no step deletes a file that a session still in the store after the
\* step references by its document URL.
C19_ReferencedBlobIsKept == [][C19_Step]_vars

\* ------------------------------------------------------------------ C20
\* C20: for every session in the store, the sockets in its room are its
\* controller together with its viewers, and each of them is connected.
C20_RoomIsControllerAndViewers ==
    \A s \in DOMAIN sessions :
        /\ rooms[s] = {sessions[s].admin} \cup sessions[s].viewers
        /\ \A c \in rooms[s] : conn[c] = "open"
====
